---- MODULE Spec2Model ----
(***************************************************************************)
(* Model of events.py: the common event interface (_Event), its two        *)
(* concrete variants (PythonEvent over threading.Event, Win32Event over    *)
(* the win32event kernel calls) and the EventHandler dispatch thread.      *)
(*                                                                         *)
(* threading.Event is modelled as documented since Python 2.7: wait()      *)
(* returns the flag (True / False), never None.  The win32event calls are  *)
(* modelled as the kernel documents them: SetEvent, PulseEvent,            *)
(* WaitForSingleObject, WaitForMultipleObjects (wait-any).                 *)
(***************************************************************************)
EXTENDS Integers, FiniteSets, Sequences, TLC

\* ---- bounds of the model ------------------------------------------------
\* number of set()/pulse() calls made on the action event of a handler
MaxFires == 3

\* ---- win32event constants -----------------------------------------------
INFINITE == -1
WAIT_OBJECT_0 == 0
WAIT_ABANDONED == 128
WAIT_TIMEOUT == 258

\* ---- universe -----------------------------------------------------------
\* client threads that call the event interface
Threads == {"t1", "t2", "t3"}
\* the thread that owns the handler (fires events, calls stop())
Controller == "t1"
\* the handler's own thread (EventHandler is a threading.Thread)
HandlerThread == "h"
\* the thread of a second handler, constructed with the same stop event
SecondHandler == "g"
Handlers == {HandlerThread, SecondHandler}
\* event objects: "a" is the event under test / a handler's action event,
\* "s" is a handler's stop event
Events == {"a", "s"}
Variants == {"Python", "Win32"}
\* timeout_secs arguments: 0, 1 second, or the default (None / INFINITE)
Timeouts == {0, 1, INFINITE}
\* the two possible orders of self.events.keys () in EventHandler.run
KeyOrders == {<<"a", "s">>, <<"s", "a">>}

VARIABLES
  variant,    \* variant[e]: class of the event object e
  manual,     \* manual[e]: the manual_reset constructor argument of e
  signaled,   \* signaled[e]: threading.Event flag / kernel signaled state
  pc,         \* pc[t]: "idle", "blocked" (inside wait), "pulsing" (inside PythonEvent.pulse)
  cur,        \* cur[t]: the call thread t is inside
  last,       \* the call that completed last, and its outcome
  sinceSet,   \* sinceSet[e]: set() returned and only wait/is_set calls followed
  pulsedBy,   \* pulsedBy[e]: thread whose pulse() of a not-signaled e is the latest call on e
  pulseSig,   \* pulseSig[e]: e is signaled only by a pulse() that has not yet returned
  hpc,        \* hpc[k], handler thread k: "none", "start", "loop", "blocked", "dispatch", "done"
  order,      \* order[k]: the list self.events.keys () handler k waits on
  finished,   \* finished[k]: EventHandler.finished
  hres,       \* hres[k]: result of the handler's WaitForMultipleObjects
  count,      \* count[k]: number of action callbacks run (saturates at MaxCount)
  fires,      \* number of set()/pulse() calls made on the handler's action event
  stopSet,    \* set() has returned on the handler's stop event
  stopped,    \* stopped[k]: the stop callback (_stop) has run
  initial,    \* initial[e]: the initial_state argument of the call that created e
  fresh,      \* fresh[e]: e was constructed and no method was called on it since
  handle,     \* handle[x]: the Win32Event instance x (its name and constructor arguments)
  loc,        \* loc[t]: position of thread t in the producer / consumer loop
  written,    \* lines the producer wrote to the shared memory
  nread       \* lines the consumer read from the shared memory

evars == <<variant, manual, signaled, pc, cur, last, sinceSet, pulsedBy, pulseSig,
           initial, fresh>>
\* state of the named instances and of the example programs
xvars == <<handle, loc, written, nread>>
vars == <<variant, manual, signaled, pc, cur, last, sinceSet, pulsedBy, pulseSig,
          hpc, order, finished, hres, count, fires, stopSet, stopped,
          initial, fresh, handle, loc, written, nread>>

\* the action counter saturates here: a manual-reset action event that stays
\* signaled makes the handler run the callback without bound
\* the lines the example producer writes before the model stops it
MaxLines == 6
MaxCount == MaxFires + 2

Min(a, b) == IF a < b THEN a ELSE b

\* Win32Event instances constructed with a name
Instances == {"x1", "x2"}
\* the names they are constructed with
Names == {"n1", "n2"}
\* an instance not constructed yet; else name is its name, obj the kernel
\* object its handle self.event refers to, init and man its initial_state and
\* manual_reset arguments, and attached tells that the name was already in
\* use when it was constructed
NoInstance == [name |-> "none", obj |-> "a", init |-> FALSE, man |-> FALSE,
               attached |-> FALSE]

\* ---- records of calls ---------------------------------------------------
NoCur == [e |-> "a", T |-> 0, pre |-> FALSE]

\* outcome of a completed call:
\*   exc        the exception the call ended with ("none": returned normally)
\*   ret        the value returned by is_set
\*   pre, post  signaled state of the event before / after the call
\*   how        for wait: "signaled" or "timeout", what ended the wait
\*   nblocked   for set: threads blocked in wait() on the event when set began
\*   nreleased  for set: those of them the set released
\*   sinceSet, ownPulse, duringPulse, fresh: the history of the event when the call ran
\*   mpre, mpost  for a construction: reset mode of the object before / after
NoCall == [op |-> "none", e |-> "a", T |-> 0, exc |-> "none", ret |-> FALSE,
           pre |-> FALSE, post |-> FALSE, how |-> "none",
           nblocked |-> 0, nreleased |-> 0,
           sinceSet |-> FALSE, ownPulse |-> FALSE, duringPulse |-> FALSE,
           fresh |-> FALSE, mpre |-> FALSE, mpost |-> FALSE]

\* ---- threading.Event (behind PythonEvent) --------------------------------
\* Event.set (): flag becomes true
PyEventSet(flag) == TRUE
\* Event.clear (): flag becomes false
PyEventClear(flag) == FALSE
\* Event.isSet ()
PyEventIsSet(flag) == flag
\* Event.wait (timeout) returns the flag on exit: "True" / "False", never "None"
PyEventWait(flag) == IF flag THEN "True" ELSE "False"

\* PythonEvent.wait: raise x_event_timeout iff Event.wait returned None
PythonWaitExc(result) == IF result = "None" THEN "x_event_timeout" ELSE "none"

\* ---- win32event kernel calls (behind Win32Event) -------------------------
\* WaitForSingleObject timeout in milliseconds for a timeout_secs argument
Win32Millis(T) == IF T = INFINITE THEN INFINITE ELSE 1000 * T

\* (mutation) a satisfied wait leaves the event signaled whatever its reset mode
AfterWaitNeverResets(man, sig) == sig

\* (mutation) a satisfied wait resets the event whatever its reset mode
AfterWaitAlwaysResets(man, sig) == FALSE

\* state of an event object after a wait on it was satisfied:
\* an auto-reset event is reset, a manual-reset event stays signaled
AfterWaitSatisfied(man, sig) == IF man THEN sig ELSE FALSE

\* Win32Event.wait: the exception for a WaitForSingleObject result
Win32WaitExc(result) ==
  IF result = WAIT_TIMEOUT THEN "x_event_timeout"
  ELSE IF result = WAIT_ABANDONED THEN "x_event_abandoned"
  ELSE "none"

\* Win32Event.is_set: 1 if self.wait (0) returned, 0 if it raised x_event_timeout
Win32IsSetRet(exc) == exc # "x_event_timeout"

\* ---- waiters ------------------------------------------------------------
Range(s) == {s[i] : i \in 1..Len(s)}
IndexOf(s, x) == CHOOSE i \in 1..Len(s) : s[i] = x

\* client threads blocked in wait () on e
Blocked(e) == {t \in Threads : pc[t] = "blocked" /\ cur[t].e = e}
\* all threads blocked on e, the handler's multi-wait included
Waiters(e) ==
  Blocked(e) \cup {k \in Handlers : hpc[k] = "blocked" /\ e \in Range(order[k])}

\* SetEvent / PulseEvent: the sets of waiters the kernel may release.
\* A manual-reset event releases all of them, an auto-reset event one.
KernelReleases(e) ==
  IF manual[e] THEN {Waiters(e)}
  ELSE IF Waiters(e) = {} THEN {{}}
  ELSE {{w} : w \in Waiters(e)}

\* SetEvent: signaled state afterwards, given the released waiters R.
\* An auto-reset event that released a waiter is reset again by that release.
SetEventState(e, R) == IF manual[e] THEN TRUE ELSE R = {}

\* (mutation) pulse calls SetEvent, as Win32Event.reset does
PulseLeavesSet(e, R) == SetEventState(e, R)

\* PulseEvent: the event is reset after releasing
PulseEventState(e, R) == FALSE

\* (mutation) the producer goes on to write without waiting
AfterCallNoWait(l) ==
  CASE l = "p_wait" -> "p_write"
    [] l = "p_set" -> "p_write"
    [] l = "c_set" -> "c_wait"
    [] l = "c_wait" -> "c_read"
    [] OTHER -> l

\* ---- one step of a client thread ---------------------------------------
\* position of a thread in the producer / consumer loop after the event call
\* at position l ("none": the thread runs no such loop)
AfterCall(l) ==
  CASE l = "p_wait" -> "p_write"
    [] l = "p_set" -> "p_wait"
    [] l = "c_set" -> "c_wait"
    [] l = "c_wait" -> "c_read"
    [] OTHER -> l

\* Thread t completes (or continues) a call on e: e's state becomes sig, the
\* waiters in R are released (their waits return), t goes to npc with call
\* record c, and r is the outcome of the call if it completed (else last).
Step(t, e, sig, R, npc, c, r) ==
  /\ signaled' = [signaled EXCEPT ![e] = sig]
  /\ pc' = [x \in Threads |-> IF x = t THEN npc
                              ELSE IF x \in R THEN "idle" ELSE pc[x]]
  /\ cur' = [x \in Threads |-> IF x = t THEN c
                               ELSE IF x \in R THEN NoCur ELSE cur[x]]
  /\ last' = r
  /\ hpc' = [k \in Handlers |-> IF k \in R THEN "dispatch" ELSE hpc[k]]
  /\ hres' = [k \in Handlers |->
               IF k \in R THEN WAIT_OBJECT_0 + IndexOf(order[k], e) - 1 ELSE hres[k]]
  /\ fresh' = [fresh EXCEPT ![e] = FALSE]
  /\ loc' = [loc EXCEPT ![t] = AfterCall(loc[t])]
  /\ UNCHANGED <<variant, manual, order, finished, count, stopped, initial,
                 handle, written, nread>>

\* history of e after a call that is neither set, wait nor is_set
Forget(e) ==
  /\ sinceSet' = [sinceSet EXCEPT ![e] = FALSE]
  /\ pulsedBy' = [pulsedBy EXCEPT ![e] = "nobody"]

\* the set()/pulse() calls made on a handler's action event are counted
CountFire(t, e) ==
  IF hpc[HandlerThread] # "none" /\ e = "a"
    THEN fires < MaxFires /\ fires' = fires + 1
    ELSE UNCHANGED fires

\* win32event.SetEvent (self.event), called by method op of Win32Event
Win32SetEvent(t, e, op) ==
  \E R \in KernelReleases(e) :
    Step(t, e, SetEventState(e, R), R, "idle", NoCur,
         [NoCall EXCEPT !.op = op, !.e = e, !.pre = signaled[e],
                        !.post = SetEventState(e, R),
                        !.nblocked = Cardinality(Blocked(e)),
                        !.nreleased = Cardinality(R \cap Threads)])

\* PythonEvent.set / Win32Event.set
Set(t, e) ==
  /\ pc[t] = "idle"
  /\ CountFire(t, e)
  /\ IF variant[e] = "Python"
       THEN Step(t, e, PyEventSet(signaled[e]), Blocked(e), "idle", NoCur,
                 [NoCall EXCEPT !.op = "set", !.e = e, !.pre = signaled[e],
                                !.post = PyEventSet(signaled[e]),
                                !.nblocked = Cardinality(Blocked(e)),
                                !.nreleased = Cardinality(Blocked(e))])
       ELSE Win32SetEvent(t, e, "set")
  /\ sinceSet' = [sinceSet EXCEPT ![e] = TRUE]
  /\ pulsedBy' = [pulsedBy EXCEPT ![e] = "nobody"]
  /\ pulseSig' = [pulseSig EXCEPT ![e] = FALSE]
  /\ stopSet' = (stopSet \/ (hpc[HandlerThread] # "none" /\ e = "s"))

\* PythonEvent.reset: self.event.clear ()
\* Win32Event.reset: win32event.SetEvent (self.event)
Reset(t, e) ==
  /\ pc[t] = "idle"
  /\ IF variant[e] = "Python"
       THEN Step(t, e, PyEventClear(signaled[e]), {}, "idle", NoCur,
                 [NoCall EXCEPT !.op = "reset", !.e = e, !.pre = signaled[e],
                                !.post = PyEventClear(signaled[e])])
       ELSE Win32SetEvent(t, e, "reset")
  /\ Forget(e)
  /\ pulseSig' = [pulseSig EXCEPT ![e] = FALSE]
  /\ UNCHANGED <<fires, stopSet>>

\* Win32Event.pulse: win32event.PulseEvent (self.event)
\* PythonEvent.pulse, first statement: self.event.set ()
Pulse(t, e) ==
  /\ pc[t] = "idle"
  /\ CountFire(t, e)
  /\ IF variant[e] = "Python"
       THEN /\ Step(t, e, PyEventSet(signaled[e]), Blocked(e), "pulsing",
                    [e |-> e, T |-> 0, pre |-> signaled[e]], last)
            /\ pulsedBy' = [pulsedBy EXCEPT ![e] = "nobody"]
            /\ pulseSig' = [pulseSig EXCEPT ![e] = (pulseSig[e] \/ ~signaled[e])]
       ELSE /\ \E R \in KernelReleases(e) :
                 Step(t, e, PulseEventState(e, R), R, "idle", NoCur,
                      [NoCall EXCEPT !.op = "pulse", !.e = e, !.pre = signaled[e],
                                     !.post = PulseEventState(e, R),
                                     !.nblocked = Cardinality(Blocked(e)),
                                     !.nreleased = Cardinality(R \cap Threads)])
            /\ pulsedBy' = [pulsedBy EXCEPT ![e] = IF signaled[e] THEN "nobody" ELSE t]
            /\ pulseSig' = [pulseSig EXCEPT ![e] = FALSE]
  /\ sinceSet' = [sinceSet EXCEPT ![e] = FALSE]
  /\ UNCHANGED stopSet

\* PythonEvent.pulse, second statement: self.event.clear ()
PulseClear(t) ==
  /\ pc[t] = "pulsing"
  /\ LET e == cur[t].e IN
       /\ Step(t, e, PyEventClear(signaled[e]), {}, "idle", NoCur,
               [NoCall EXCEPT !.op = "pulse", !.e = e, !.pre = cur[t].pre,
                              !.post = PyEventClear(signaled[e])])
       /\ pulsedBy' = [pulsedBy EXCEPT ![e] = IF cur[t].pre THEN "nobody" ELSE t]
       /\ pulseSig' = [pulseSig EXCEPT ![e] = FALSE]
       /\ sinceSet' = [sinceSet EXCEPT ![e] = FALSE]
  /\ UNCHANGED <<fires, stopSet>>

\* win32event.WaitForSingleObject (self.event, ms) when it returns at once:
\* the event is signaled, or ms is 0
Win32WaitNow(sig) == IF sig THEN WAIT_OBJECT_0 ELSE WAIT_TIMEOUT

\* the history of e as seen by a wait or is_set of thread t
Seen(t, e, r) ==
  [r EXCEPT !.sinceSet = sinceSet[e], !.ownPulse = (pulsedBy[e] = t),
            !.duringPulse = pulseSig[e], !.fresh = fresh[e]]

\* PythonEvent.is_set: return self.event.isSet ()
\* Win32Event.is_set: try self.wait (0), 1 if it returns, 0 on x_event_timeout
IsSet(t, e) ==
  /\ pc[t] = "idle"
  /\ IF variant[e] = "Python"
       THEN Step(t, e, signaled[e], {}, "idle", NoCur,
                 Seen(t, e, [NoCall EXCEPT !.op = "is_set", !.e = e,
                                           !.ret = PyEventIsSet(signaled[e]),
                                           !.pre = signaled[e], !.post = signaled[e]]))
       ELSE LET exc == Win32WaitExc(Win32WaitNow(signaled[e]))
                post == IF signaled[e] THEN AfterWaitSatisfied(manual[e], signaled[e])
                        ELSE signaled[e]
            IN Step(t, e, post, {}, "idle", NoCur,
                    Seen(t, e, [NoCall EXCEPT !.op = "is_set", !.e = e,
                                  !.exc = IF exc = "x_event_timeout" THEN "none" ELSE exc,
                                  !.ret = Win32IsSetRet(exc),
                                  !.pre = signaled[e], !.post = post]))
  /\ pulsedBy' = [pulsedBy EXCEPT ![e] = "nobody"]
  /\ UNCHANGED <<sinceSet, pulseSig, fires, stopSet>>

\* Win32Event.is_set when WaitForSingleObject reports the object as abandoned:
\* wait (0) raises x_event_abandoned, which is_set does not catch
IsSetAbandoned(t, e) ==
  /\ pc[t] = "idle"
  /\ variant[e] = "Win32"
  /\ LET exc == Win32WaitExc(WAIT_ABANDONED)
     IN Step(t, e, signaled[e], {}, "idle", NoCur,
             Seen(t, e, [NoCall EXCEPT !.op = "is_set", !.e = e,
                           !.exc = IF exc = "x_event_timeout" THEN "none" ELSE exc,
                           !.ret = Win32IsSetRet(exc),
                           !.pre = signaled[e], !.post = signaled[e]]))
  /\ pulsedBy' = [pulsedBy EXCEPT ![e] = "nobody"]
  /\ UNCHANGED <<sinceSet, pulseSig, fires, stopSet>>

\* PythonEvent.wait (timeout_secs) / Win32Event.wait (timeout_secs):
\* returns or raises at once if the event is signaled or the timeout is 0,
\* blocks otherwise
Wait(t, e, T) ==
  /\ pc[t] = "idle"
  /\ LET now == signaled[e] \/ (IF variant[e] = "Python" THEN T = 0 ELSE Win32Millis(T) = 0)
         exc == IF variant[e] = "Python"
                  THEN PythonWaitExc(PyEventWait(signaled[e]))
                  ELSE Win32WaitExc(Win32WaitNow(signaled[e]))
         post == IF variant[e] = "Win32" /\ signaled[e]
                   THEN AfterWaitSatisfied(manual[e], signaled[e])
                   ELSE signaled[e]
     IN IF now
          THEN Step(t, e, post, {}, "idle", NoCur,
                    Seen(t, e, [NoCall EXCEPT !.op = "wait", !.e = e, !.T = T,
                                  !.exc = exc,
                                  !.how = IF signaled[e] THEN "signaled" ELSE "timeout",
                                  !.pre = signaled[e], !.post = post]))
          ELSE Step(t, e, signaled[e], {}, "blocked",
                    [e |-> e, T |-> T, pre |-> signaled[e]], last)
  /\ pulsedBy' = [pulsedBy EXCEPT ![e] = "nobody"]
  /\ UNCHANGED <<sinceSet, pulseSig, fires, stopSet>>

\* the timeout of a blocked wait elapses before the event is signaled
Timeout(t) ==
  /\ pc[t] = "blocked"
  /\ cur[t].T # INFINITE
  /\ LET e == cur[t].e IN
       /\ Step(t, e, signaled[e], {}, "idle", NoCur,
               [NoCall EXCEPT !.op = "wait", !.e = e, !.T = cur[t].T,
                              !.exc = IF variant[e] = "Python"
                                      THEN PythonWaitExc(PyEventWait(signaled[e]))
                                      ELSE Win32WaitExc(WAIT_TIMEOUT),
                              !.how = "timeout",
                              !.pre = signaled[e], !.post = signaled[e]])
       /\ pulsedBy' = [pulsedBy EXCEPT ![e] = "nobody"]
  /\ UNCHANGED <<sinceSet, pulseSig, fires, stopSet>>

\* _Event.fire = _Event.set, _Event.stop = _Event.reset: the aliases are bound
\* to the methods of the base class, which raise x_unimplemented
BaseMethodExc(op) == "x_unimplemented"

EventAlias(t, e, op) ==
  /\ pc[t] = "idle"
  /\ Step(t, e, signaled[e], {}, "idle", NoCur,
          [NoCall EXCEPT !.op = op, !.e = e, !.exc = BaseMethodExc(op),
                         !.pre = signaled[e], !.post = signaled[e],
                         !.nblocked = Cardinality(Blocked(e))])
  /\ Forget(e)
  /\ UNCHANGED <<pulseSig, fires, stopSet>>

\* x.fire () on a concrete event
EventFire(t, e) == EventAlias(t, e, "fire")
\* x.stop () on a concrete event
EventStop(t, e) == EventAlias(t, e, "stop")

\* ---- EventHandler ------------------------------------------------------
\* EventHandler.stop: self.stop_event.fire ()
HandlerStop(t) ==
  /\ hpc[HandlerThread] # "none"
  /\ pc[t] = "idle"
  /\ Step(t, "s", signaled["s"], {}, "idle", NoCur,
          [NoCall EXCEPT !.op = "handler_stop", !.e = "s",
                         !.exc = BaseMethodExc("fire"),
                         !.pre = signaled["s"], !.post = signaled["s"]])
  /\ UNCHANGED <<sinceSet, pulsedBy, pulseSig, fires, stopSet>>

\* EventHandler.run, up to the loop: self.finished = 0; events = self.events.keys ()
HandlerStart(k) ==
  /\ hpc[k] = "start"
  /\ hpc' = [hpc EXCEPT ![k] = "loop"]
  /\ finished' = [finished EXCEPT ![k] = FALSE]
  /\ UNCHANGED <<evars, order, hres, count, fires, stopSet, stopped, xvars>>

\* WaitForMultipleObjects (events, 0, INFINITE): the indexes of the signaled objects
SignaledIndexes(k) == {i \in 1..Len(order[k]) : signaled[order[k][i]]}
\* (mutation) the wait reports the first object whichever one is signaled
FirstIndex(k) == 1

\* of several signaled objects the wait reports the one with the lowest index
FirstSignaled(k) == CHOOSE i \in SignaledIndexes(k) : \A j \in SignaledIndexes(k) : i <= j

\* EventHandler.run: the test of the while loop and the call of the multi-wait
HandlerWait(k) ==
  /\ hpc[k] = "loop"
  /\ IF finished[k]
       THEN /\ hpc' = [hpc EXCEPT ![k] = "done"]
            /\ UNCHANGED <<signaled, hres, fresh>>
       ELSE IF SignaledIndexes(k) # {}
         THEN LET e == order[k][FirstSignaled(k)] IN
              /\ hpc' = [hpc EXCEPT ![k] = "dispatch"]
              /\ hres' = [hres EXCEPT ![k] = WAIT_OBJECT_0 + FirstSignaled(k) - 1]
              /\ signaled' = [signaled EXCEPT ![e] = AfterWaitSatisfied(manual[e], TRUE)]
              /\ fresh' = [fresh EXCEPT ![e] = FALSE]
         ELSE /\ hpc' = [hpc EXCEPT ![k] = "blocked"]
              /\ UNCHANGED <<signaled, hres, fresh>>
  /\ UNCHANGED <<variant, manual, pc, cur, last, sinceSet, pulsedBy, pulseSig,
                 order, finished, count, fires, stopSet, stopped, initial, xvars>>

\* the test of run on the result of the multi-wait
InRange(k, result) ==
  WAIT_OBJECT_0 <= result /\ result <= WAIT_OBJECT_0 + Len(order[k]) - 1

\* EventHandler.run: self.events[events[result - WAIT_OBJECT_0]] ()
\* the action callback counts its calls; the stop callback is _stop
HandlerDispatch(k) ==
  /\ hpc[k] = "dispatch"
  /\ hpc' = [hpc EXCEPT ![k] = "loop"]
  /\ IF InRange(k, hres[k])
       THEN IF order[k][hres[k] - WAIT_OBJECT_0 + 1] = "a"
              THEN /\ count' = [count EXCEPT ![k] = Min(count[k] + 1, MaxCount)]
                   /\ UNCHANGED <<finished, stopped>>
              ELSE /\ finished' = [finished EXCEPT ![k] = TRUE]
                   /\ stopped' = [stopped EXCEPT ![k] = TRUE]
                   /\ UNCHANGED count
       ELSE UNCHANGED <<finished, stopped, count>>
  /\ UNCHANGED <<evars, order, hres, fires, stopSet, xvars>>

\* the steps of handler thread k
HandlerSteps(k) == HandlerStart(k) \/ HandlerWait(k) \/ HandlerDispatch(k)

HandlerNext == HandlerSteps(HandlerThread)

\* ---- specifications -----------------------------------------------------
\* (mutation) the constructor leaves the event not signaled
InitialStateCleared(initial_state) == FALSE

\* PythonEvent.__init__ / win32event.CreateEvent: the event starts in initial_state
InitialState(initial_state) == initial_state

InitCommon ==
  /\ pc = [t \in Threads |-> "idle"]
  /\ cur = [t \in Threads |-> NoCur]
  /\ last = NoCall
  /\ sinceSet = [e \in Events |-> FALSE]
  /\ pulsedBy = [e \in Events |-> "nobody"]
  /\ pulseSig = [e \in Events |-> FALSE]
  /\ finished = [k \in Handlers |-> FALSE]
  /\ hres = [k \in Handlers |-> WAIT_OBJECT_0]
  /\ count = [k \in Handlers |-> 0]
  /\ fires = 0
  /\ stopSet = FALSE
  /\ stopped = [k \in Handlers |-> FALSE]
  /\ fresh = [e \in Events |-> TRUE]
  /\ handle = [x \in Instances |-> NoInstance]
  /\ loc = [t \in Threads |-> "none"]
  /\ written = 0
  /\ nread = 0

\* one event "a" of either variant and reset mode, used by three threads
Init ==
  /\ \E v \in Variants : variant = [e \in Events |-> IF e = "a" THEN v ELSE "Win32"]
  /\ \E m \in BOOLEAN : manual = [e \in Events |-> e = "a" /\ m]
  /\ \E i \in BOOLEAN :
       /\ initial = [e \in Events |-> e = "a" /\ i]
       /\ signaled = [e \in Events |-> e = "a" /\ InitialState(i)]
  /\ hpc = [k \in Handlers |-> "none"]
  /\ order = [k \in Handlers |-> <<"a", "s">>]
  /\ InitCommon

Next ==
  \E t \in Threads :
    \/ Set(t, "a")
    \/ Reset(t, "a")
    \/ Pulse(t, "a")
    \/ PulseClear(t)
    \/ IsSet(t, "a")
    \/ \E T \in Timeouts : Wait(t, "a", T)
    \/ Timeout(t)
    \/ EventFire(t, "a")
    \/ EventStop(t, "a")

Spec == Init /\ [][Next]_vars

\* the same, with a backend whose wait may report the object as abandoned
NextBackend ==
  \E t \in Threads :
    \/ Set(t, "a")
    \/ Reset(t, "a")
    \/ IsSet(t, "a")
    \/ IsSetAbandoned(t, "a")
    \/ \E T \in Timeouts : Wait(t, "a", T)
    \/ Timeout(t)

SpecBackend == Init /\ [][NextBackend]_vars

\* an EventHandler over two Win32Events, just constructed (its thread started),
\* and the thread that constructed it
InitHandler ==
  /\ variant = [e \in Events |-> "Win32"]
  /\ manual \in [Events -> BOOLEAN]
  /\ \E i \in BOOLEAN :
       /\ initial = [e \in Events |-> e = "a" /\ i]
       /\ signaled = [e \in Events |-> e = "a" /\ InitialState(i)]
  /\ hpc = [k \in Handlers |-> IF k = HandlerThread THEN "start" ELSE "none"]
  /\ \E o \in KeyOrders : order = [k \in Handlers |-> o]
  /\ InitCommon

NextHandler ==
  \/ Set(Controller, "a")
  \/ Set(Controller, "s")
  \/ Pulse(Controller, "a")
  \/ Reset(Controller, "a")
  \/ HandlerStop(Controller)
  \/ HandlerStart(HandlerThread)
  \/ HandlerWait(HandlerThread)
  \/ HandlerDispatch(HandlerThread)

SpecHandler == InitHandler /\ [][NextHandler]_vars

\* the handler's thread is scheduled whenever it can run
FairSpecHandler == SpecHandler /\ WF_vars(HandlerNext)

\* the defaults of the constructors: initial_state=0, manual_reset=0
DefaultInitialState == FALSE
DefaultManualReset == FALSE

\* ---- the example producer and consumer -----------------------------------
Producer == "t1"
Consumer == "t2"
\* events.Win32Event (common.READY_TO_CONSUME)
ReadyToConsume == "a"
\* events.Win32Event (common.FINISHED_PRODUCING)
FinishedProducing == "s"

\* producer.py: ready_to_consume_event.wait ()
ProducerWait ==
  /\ loc[Producer] = "p_wait"
  /\ Wait(Producer, ReadyToConsume, INFINITE)

\* producer.py: shared_memory.write (...); line_number += 1
ProducerWrite ==
  /\ loc[Producer] = "p_write" /\ pc[Producer] = "idle"
  /\ written < MaxLines
  /\ written' = written + 1
  /\ loc' = [loc EXCEPT ![Producer] = "p_set"]
  /\ UNCHANGED <<evars, hpc, order, finished, hres, count, fires, stopSet, stopped,
                 handle, nread>>

\* producer.py: finished_producing_event.set ()
ProducerSet ==
  /\ loc[Producer] = "p_set"
  /\ Set(Producer, FinishedProducing)

\* consumer.py: ready_to_consume_event.set ()
ConsumerSet ==
  /\ loc[Consumer] = "c_set"
  /\ Set(Consumer, ReadyToConsume)

\* consumer.py: finished_producing_event.wait ()
ConsumerWait ==
  /\ loc[Consumer] = "c_wait"
  /\ Wait(Consumer, FinishedProducing, INFINITE)

\* consumer.py: print shared_memory.readline (); time.sleep (2)
ConsumerRead ==
  /\ loc[Consumer] = "c_read" /\ pc[Consumer] = "idle"
  /\ nread' = nread + 1
  /\ loc' = [loc EXCEPT ![Consumer] = "c_set"]
  /\ UNCHANGED <<evars, hpc, order, finished, hres, count, fires, stopSet, stopped,
                 handle, written>>

ProducerNext == ProducerWait \/ ProducerWrite \/ ProducerSet
ConsumerNext == ConsumerWait \/ ConsumerRead \/ ConsumerSet

\* both programs have created their events and are about to enter their loops
InitExample ==
  /\ variant = [e \in Events |-> "Win32"]
  /\ manual = [e \in Events |-> DefaultManualReset]
  /\ initial = [e \in Events |-> DefaultInitialState]
  /\ signaled = [e \in Events |-> InitialState(DefaultInitialState)]
  /\ hpc = [k \in Handlers |-> "none"]
  /\ order = [k \in Handlers |-> <<"a", "s">>]
  /\ pc = [t \in Threads |-> "idle"]
  /\ cur = [t \in Threads |-> NoCur]
  /\ last = NoCall
  /\ sinceSet = [e \in Events |-> FALSE]
  /\ pulsedBy = [e \in Events |-> "nobody"]
  /\ pulseSig = [e \in Events |-> FALSE]
  /\ finished = [k \in Handlers |-> FALSE]
  /\ hres = [k \in Handlers |-> WAIT_OBJECT_0]
  /\ count = [k \in Handlers |-> 0]
  /\ fires = 0
  /\ stopSet = FALSE
  /\ stopped = [k \in Handlers |-> FALSE]
  /\ fresh = [e \in Events |-> TRUE]
  /\ handle = [x \in Instances |-> NoInstance]
  /\ loc = [t \in Threads |-> IF t = Producer THEN "p_wait"
                               ELSE IF t = Consumer THEN "c_set" ELSE "none"]
  /\ written = 0
  /\ nread = 0

NextExample ==
  \/ ProducerWait
  \/ ProducerWrite
  \/ ProducerSet
  \/ ConsumerSet
  \/ ConsumerWait
  \/ ConsumerRead

SpecExample == InitExample /\ [][NextExample]_vars

\* both processes keep running
FairSpecExample == SpecExample /\ WF_vars(ProducerNext) /\ WF_vars(ConsumerNext)

\* ---- named Win32Events --------------------------------------------------
\* the instances constructed so far
Constructed == {x \in Instances : handle[x].name # "none"}
\* the kernel objects that exist under name n
ObjectsNamed(n) == {handle[x].obj : x \in {y \in Constructed : handle[y].name = n}}
\* the kernel objects not in use
FreeObjects == Events \ {handle[x].obj : x \in Constructed}

\* win32event.CreateEvent (None, manual_reset, initial_state, name): the object
\* the returned handle refers to: the one of that name if there is one
CreateEventObject(n) ==
  IF ObjectsNamed(n) # {} THEN CHOOSE o \in ObjectsNamed(n) : TRUE
  ELSE CHOOSE o \in FreeObjects : TRUE

\* (mutation) the arguments of a later CreateEvent are applied to the object
CreateEventOverwrites(exists, old, arg) == arg

\* CreateEvent: signaled state / reset mode of the object afterwards: that of
\* the existing object, or the argument for a new object
CreateEventKeeps(exists, old, arg) == IF exists THEN old ELSE arg

\* Win32Event.__init__ (name, initial_state, manual_reset) for instance x
Create(t, x, n, i, m) ==
  /\ pc[t] = "idle"
  /\ handle[x].name = "none"
  /\ FreeObjects # {}
  /\ LET exists == ObjectsNamed(n) # {}
         o == CreateEventObject(n)
         sig == CreateEventKeeps(exists, signaled[o], InitialState(i))
         man == CreateEventKeeps(exists, manual[o], m)
     IN /\ handle' = [handle EXCEPT ![x] = [name |-> n, obj |-> o, init |-> i,
                                            man |-> m, attached |-> exists]]
        /\ signaled' = [signaled EXCEPT ![o] = sig]
        /\ manual' = [manual EXCEPT ![o] = man]
        /\ initial' = [initial EXCEPT ![o] = IF exists THEN initial[o] ELSE i]
        /\ fresh' = [fresh EXCEPT ![o] = IF exists THEN fresh[o] ELSE TRUE]
        /\ last' = [NoCall EXCEPT !.op = "create", !.e = o,
                                  !.how = IF exists THEN "attached" ELSE "created",
                                  !.pre = signaled[o], !.post = sig,
                                  !.mpre = manual[o], !.mpost = man]
  /\ UNCHANGED <<variant, pc, cur, sinceSet, pulsedBy, pulseSig, hpc, order, finished,
                 hres, count, fires, stopSet, stopped, loc, written, nread>>

\* no Win32Event constructed yet
InitNamed ==
  /\ variant = [e \in Events |-> "Win32"]
  /\ manual = [e \in Events |-> FALSE]
  /\ initial = [e \in Events |-> FALSE]
  /\ signaled = [e \in Events |-> FALSE]
  /\ hpc = [k \in Handlers |-> "none"]
  /\ order = [k \in Handlers |-> <<"a", "s">>]
  /\ InitCommon

\* the threads that use the named instances
Callers == {"t1", "t2"}

\* threads construct instances and call their methods
NextNamed ==
  \/ \E t \in Callers, x \in Instances, n \in Names, i, m \in BOOLEAN : Create(t, x, n, i, m)
  \/ \E t \in Callers, x \in Constructed : Set(t, handle[x].obj)
  \/ \E t \in Callers, x \in Constructed : Reset(t, handle[x].obj)
  \/ \E t \in Callers, x \in Constructed : Pulse(t, handle[x].obj)
  \/ \E t \in Callers, x \in Constructed : IsSet(t, handle[x].obj)
  \/ \E t \in Callers, x \in Constructed, T \in Timeouts : Wait(t, handle[x].obj, T)
  \/ \E t \in Callers : Timeout(t)

SpecNamed == InitNamed /\ [][NextNamed]_vars

\* a handler whose action event is auto-reset and whose stop event is not
\* fired; the controller fires the action event with set (), each time only
\* after the callback for the previous fire has returned
InitSequential ==
  /\ InitHandler
  /\ ~manual["a"]

SequentialFire ==
  /\ count[HandlerThread] >= fires
  /\ Set(Controller, "a")

NextSequential ==
  \/ SequentialFire
  \/ HandlerStart(HandlerThread)
  \/ HandlerWait(HandlerThread)
  \/ HandlerDispatch(HandlerThread)

SpecSequential == InitSequential /\ [][NextSequential]_vars


\* two EventHandlers constructed without a stop event: both wait on the
\* module's STOP_EVENT = Event ("__STOP_EVENT_HANDLER"), "s", and on an
\* auto-reset action event; the controller sets STOP_EVENT once
InitShared ==
  /\ variant = [e \in Events |-> "Win32"]
  /\ manual = [e \in Events |-> DefaultManualReset]
  /\ initial = [e \in Events |-> DefaultInitialState]
  /\ signaled = [e \in Events |-> InitialState(DefaultInitialState)]
  /\ hpc = [k \in Handlers |-> "start"]
  /\ order \in [Handlers -> KeyOrders]
  /\ InitCommon

SetStopOnce ==
  /\ ~stopSet
  /\ Set(Controller, "s")

NextShared ==
  \/ SetStopOnce
  \/ Set(Controller, "a")
  \/ \E k \in Handlers : HandlerStart(k)
  \/ \E k \in Handlers : HandlerWait(k)
  \/ \E k \in Handlers : HandlerDispatch(k)

SpecShared == InitShared /\ [][NextShared]_vars

TypeOK ==
  /\ variant \in [Events -> Variants]
  /\ manual \in [Events -> BOOLEAN]
  /\ signaled \in [Events -> BOOLEAN]
  /\ pc \in [Threads -> {"idle", "blocked", "pulsing"}]
  /\ hpc \in [Handlers -> {"none", "start", "loop", "blocked", "dispatch", "done"}]
  /\ order \in [Handlers -> KeyOrders]
  /\ count \in [Handlers -> 0..MaxCount]
  /\ fires \in 0..MaxFires

\* ---- claims about the event interface (specification Spec) ----------------

\* C1: on a manual-reset event of either variant, every is_set() made after
\* set() returned and before any reset() returns true, and every wait made
\* then (wait(0) in particular) returns without x_event_timeout.
C1_SetStaysObservable ==
  (last.op \in {"is_set", "wait"} /\ last.sinceSet /\ manual[last.e]) =>
    /\ last.exc = "none"
    /\ last.op = "is_set" => last.ret

\* a second probe of a set manual-reset Win32Event: is_set() after set() and
\* an earlier is_set()/wait(0)
C1_Witness ==
  /\ last.op = "is_set" /\ last.sinceSet /\ last.ret
  /\ manual["a"] /\ variant["a"] = "Win32" /\ sinceSet["a"] /\ pulsedBy["a"] = "nobody"

\* C2: a set() on an auto-reset event on which two threads are blocked in
\* wait() releases exactly one of them.
C2_OneWaiterPerSet ==
  (last.op = "set" /\ ~manual[last.e] /\ last.nblocked = 2) => last.nreleased = 1

\* C3: after reset() returns the event is not signaled.
C3_ResetClears ==
  last.op = "reset" => ~last.post

\* C4: a wait with a finite timeout that ends because the timeout elapsed
\* raises x_event_timeout, and a wait that ends because the event is signaled
\* returns normally.
C4_TimeoutRaises ==
  last.op = "wait" =>
    /\ (last.how = "timeout" /\ last.T # INFINITE) => last.exc = "x_event_timeout"
    /\ last.how = "signaled" => last.exc = "none"

\* C5: is_set() leaves the signaled state of the event as it found it.
C5_IsSetLeavesState ==
  last.op = "is_set" => last.post = last.pre

\* C6: is_set() by the thread whose pulse() of a not-signaled event was the
\* latest call on that event returns false.
C6_PulseNotObservable ==
  (last.op = "is_set" /\ last.ownPulse) => ~last.ret

\* is_set() right after the caller's own pulse() of a not-signaled event
C6_Witness ==
  last.op = "is_set" /\ last.ownPulse /\ ~last.pre

\* C7: no is_set() and no wait that starts while a pulse() of a not-signaled
\* event is in progress sees the event signaled.
C7_PulseAtomic ==
  ~ /\ last.op \in {"is_set", "wait"}
    /\ last.duringPulse
    /\ IF last.op = "is_set" THEN last.ret ELSE last.how = "signaled"

\* C8: fire() ends as set() does and stop() as reset() does: without an
\* exception, fire() leaving the event signaled (unless an auto-reset event
\* released a blocked waiter) and stop() leaving a PythonEvent not signaled.
C8_AliasesActAlike ==
  /\ last.op \in {"fire", "stop"} => last.exc = "none"
  /\ (last.op = "fire" /\ (variant[last.e] = "Python" \/ manual[last.e] \/ last.nblocked = 0))
       => last.post
  /\ (last.op = "stop" /\ variant[last.e] = "Python") => ~last.post

\* ---- claims about EventHandler (SpecHandler, FairSpecHandler) -------------

\* C9: EventHandler.stop() returns without raising and leaves the stop event
\* signaled until the handler's wait takes it and the stop callback runs.
C9_HandlerStopFires ==
  last.op = "handler_stop" =>
    /\ last.exc = "none"
    /\ \/ signaled["s"]
       \/ stopped[HandlerThread]
       \/ /\ hpc[HandlerThread] = "dispatch"
          /\ InRange(HandlerThread, hres[HandlerThread])
          /\ order[HandlerThread][hres[HandlerThread] - WAIT_OBJECT_0 + 1] = "s"

\* C10: once set() has returned on the stop event the handler thread
\* eventually terminates, and once the stop callback has run the action
\* callback never runs again.
C10_StopTerminates ==
  /\ stopSet ~> (hpc[HandlerThread] = "done")
  /\ [][stopped[HandlerThread] => count'[HandlerThread] = count[HandlerThread]]_vars

\* the handler is blocked in its multi-wait: every signal was dispatched
Idle(k) == hpc[k] = "blocked"

\* C11 (as claimed): under sequential firing of an auto-reset action event,
\* once the handler is back in its wait the action callback has run exactly
\* as many times as the event was fired.
C11_OnePerFire ==
  Idle(HandlerThread) => count[HandlerThread] = fires

\* C11 (amended): the same for an action event that was not signaled when the
\* handler was constructed; before the handler is back in its wait the last
\* fire may still be pending.
C11_OnePerFireUnsignaled ==
  ~initial["a"] =>
    /\ count[HandlerThread] \in {fires - 1, fires}
    /\ Idle(HandlerThread) => count[HandlerThread] = fires

\* three sequential fires, three callbacks, handler waiting again
C11_Witness ==
  /\ ~initial["a"] /\ fires = 3 /\ count[HandlerThread] = 3 /\ Idle(HandlerThread)

\* C12: after the one set() of the shared STOP_EVENT every handler stops: no
\* handler is left blocked in its multi-wait with STOP_EVENT not signaled
\* (no further set() comes, so it could never run its stop callback).
C12_SharedStopReachesAll ==
  stopSet => \A k \in Handlers : hpc[k] = "blocked" => signaled["s"]

\* ---- claims about named Win32Events (SpecNamed) ---------------------------

\* the signaled state an instance observes
Observed(x) == signaled[handle[x].obj]
\* the instances constructed with the name of the object e
SameName(e) ==
  {y \in Constructed : \E x \in Constructed :
     handle[x].obj = e /\ handle[y].name = handle[x].name}

\* two instances were constructed with the name of the object e
Shared(e) == Cardinality(SameName(e)) >= 2

\* C13: a construction with a name in use leaves the signaled state and the
\* reset mode of the object as they were, and is_set() through an instance
\* that attached to a just created object returns the first creator's
\* initial_state.
C13_FirstCreatorWins ==
  /\ (last.op = "create" /\ last.how = "attached") =>
       (last.post = last.pre /\ last.mpost = last.mpre)
  /\ (last.op = "is_set" /\ last.fresh) =>
       \A y \in SameName(last.e) : handle[y].obj = last.e /\ last.ret = initial[last.e]

\* created with initial_state true, constructed again with initial_state
\* false, and is_set() returned true
C13_Witness ==
  /\ last.op = "is_set" /\ last.fresh /\ last.ret
  /\ \E y \in Constructed : handle[y].obj = last.e /\ handle[y].attached /\ ~handle[y].init

\* C14: instances constructed with the same name observe the same signaled
\* state; after set() through one of them the others observe a manual-reset
\* event signaled, and after reset() through one of them the others observe
\* it not signaled.
C14_SharedState ==
  /\ \A x, y \in Constructed :
       handle[x].name = handle[y].name => Observed(x) = Observed(y)
  /\ (last.op = "set" /\ manual[last.e] /\ Shared(last.e)) =>
       \A y \in SameName(last.e) : Observed(y)
  /\ (last.op = "reset" /\ Shared(last.e)) =>
       \A y \in SameName(last.e) : ~Observed(y)

\* ---- claims about construction and is_set --------------------------------

\* C15: is_set() called on an event right after its construction, before any
\* other call on it, returns the initial_state it was constructed with.
C15_StartsInInitialState ==
  (last.op = "is_set" /\ last.fresh) => last.ret = initial[last.e]

\* a PythonEvent constructed with initial_state true, probed first with is_set()
C15_Witness ==
  /\ last.op = "is_set" /\ last.fresh /\ last.ret
  /\ initial["a"] /\ variant["a"] = "Python"

\* C16: is_set() never ends in an exception, whatever the underlying wait
\* reports.
C16_IsSetNeverRaises ==
  last.op = "is_set" => last.exc = "none"

\* ---- further claims about EventHandler (SpecHandler) ----------------------

\* the object the handler's last multi-wait reported
Selected(k) == order[k][hres[k] - WAIT_OBJECT_0 + 1]

\* C17: finished is true only if the stop callback has run, after set() on
\* the stop event and a multi-wait that reported the stop event; and finished
\* changes only in the dispatch of the stop event, never in a call on the
\* action event or in the dispatch of the action callback.
C17_FinishedOnlyByStop ==
  /\ [](finished[HandlerThread] =>
          stopped[HandlerThread] /\ stopSet /\ Selected(HandlerThread) = "s")
  /\ [][finished'[HandlerThread] # finished[HandlerThread] =>
          /\ hpc[HandlerThread] = "dispatch" /\ Selected(HandlerThread) = "s"
          /\ stopSet /\ last' = last
          /\ count'[HandlerThread] = count[HandlerThread]]_vars

\* the handler ran the action callback, and later the stop callback
C17_Witness ==
  /\ finished[HandlerThread] /\ stopped[HandlerThread]
  /\ count[HandlerThread] >= 1 /\ fires >= 1

\* C18: with an auto-reset, initially not signaled action event the action
\* callback has run at most as often as set() and pulse() were called on the
\* action event.
C18_NoCallbackWithoutSignal ==
  (~manual["a"] /\ ~initial["a"]) => count[HandlerThread] <= fires

\* ---- the example producer and consumer (FairSpecExample) ------------------

\* the producer is inside shared_memory.write, the consumer inside readline
Writing == loc[Producer] = "p_write" /\ pc[Producer] = "idle"
Reading == loc[Consumer] = "c_read" /\ pc[Consumer] = "idle"

\* C19: the lines written are at most one ahead of the lines read and never
\* behind, the producer does not write while the consumer reads, and every
\* line written is eventually read.
C19_WritesAndReadsAlternate ==
  /\ [](written - nread \in {0, 1})
  /\ [](~(Writing /\ Reading))
  /\ [](Writing => written = nread)
  /\ [](Reading => written = nread + 1)
  /\ \A k \in 1..MaxLines : (written = k) ~> (nread = k)

\* every line of the run was written and read
C19_Witness == written = MaxLines /\ nread = MaxLines

====
